---- MODULE Spec2Model ----
(***************************************************************************)
(* A model of the freva storage/statistics REST service: the token         *)
(* service, the JSON-schema validator of databrowser statistics, the       *)
(* record store adapter, the read filter and the CSV exporter.             *)
(***************************************************************************)
EXTENDS Integers, Sequences, FiniteSets, TLC

VARIABLES
    store,      \* mongo collections: [db, collection] -> sequence of documents
    nextId,     \* the next identifier the store assigns on insert_one
    now,        \* the wall clock (UTC), in ticks
    tz,         \* the UTC offset of the server's local time zone, in ticks
    resp,       \* the response of the last request (and the store calls it made)
    pending,    \* a StreamingResponse whose body is not yet produced, or NoStream
    created,    \* history: what each successful create submitted
    updated,    \* history: identifiers a successful update has touched
    issued,     \* tokens handed out by create_oauth_token
    tokResp,    \* the outcome of the last token operation
    vdata,      \* the payload given to the validator (validator specification)
    vmethod,    \* the method given to the validator
    vresult,    \* the outcome of the last validator call
    inflight    \* the update requests being handled concurrently, by slot

vars == <<store, nextId, now, tz, resp, pending, created, updated, issued,
          tokResp, vdata, vmethod, vresult, inflight>>

storeVars == <<store, nextId, resp, pending, created, updated>>
tokenVars == <<issued, tokResp>>
validatorVars == <<vdata, vmethod, vresult>>

-----------------------------------------------------------------------------
(* Bounds of the model.                                                     *)

MaxTime == 3        \* the token specification's clock stops here
MaxTokens == 1      \* tokens the token specification hands out
MaxIds == 2         \* identifiers the store assigns

-----------------------------------------------------------------------------
(* JSON values.  A value carries its JSON type; an object is a sequence of  *)
(* key/value pairs in insertion order, as a Python dict is.                 *)

I(n) == [t |-> "int", v |-> n]
S(s) == [t |-> "str", v |-> s]
D(n) == [t |-> "date", v |-> n]
O(pairs) == [t |-> "obj", v |-> pairs]
Null == [t |-> "null", v |-> 0]
\* the marker of a key that is not there
Absent == [t |-> "absent", v |-> 0]
KV(key, val) == [k |-> key, v |-> val]

Keys(o) == {o.v[i].k : i \in DOMAIN o.v}
Has(o, key) == key \in Keys(o)
Get(o, key) == o.v[CHOOSE i \in DOMAIN o.v : o.v[i].k = key].v
\* dict.get(key, default)
GetOr(o, key, default) == IF Has(o, key) THEN Get(o, key) ELSE default
\* d[key] = val: an existing key keeps its position, a new key goes last
Put(o, key, val) ==
    IF Has(o, key)
    THEN O([i \in DOMAIN o.v |-> IF o.v[i].k = key THEN KV(key, val) ELSE o.v[i]])
    ELSE O(Append(o.v, KV(key, val)))
\* {k: v for (k, v) in d.items() if v is not None}
DropNone(o) == O(SelectSeq(o.v, LAMBDA p : p.v # Null))

-----------------------------------------------------------------------------
(* The schema validator.                                                    *)

\* Translator("freva").valid_facets, the facet vocabulary, in its order
FacetKeys == <<"project", "variable">>

\* a vocabulary that has taken up a key no facet bears
FacetSetGrown == {FacetKeys[i] : i \in DOMAIN FacetKeys} \cup {"foo"}

FacetSet == {FacetKeys[i] : i \in DOMAIN FacetKeys}

NoProps == [k \in {} |-> 0]
TypeSchema(ty) == [type |-> ty, properties |-> NoProps, required |-> {}]
ObjectSchema(props, req) == [type |-> "object", properties |-> props, required |-> req]

QuerySchema == ObjectSchema([k \in FacetSet |-> TypeSchema("string")], {})

MetadataProperties ==
    [k \in {"num_results", "flavour", "uniq_key", "server_status", "date"} |->
        IF k \in {"num_results", "server_status"}
        THEN TypeSchema("integer") ELSE TypeSchema("string")]

\* a metadata schema that requires nothing
MetadataRequiredNothing == {}

MetadataRequired == {"num_results", "flavour", "uniq_key", "server_status"}

\* f"metadata.{k}" / f"query.{k}"
Dotted(prefix, k) == prefix \o "." \o k

DottedKeys(prefix, fields) == {Dotted(prefix, f) : f \in fields}

\* {f"metadata.{k}": v ...} and {f"query.{k}": v ...}: each dotted key takes
\* the sub-schema of the field it names
DottedProperties ==
    [k \in DottedKeys("metadata", DOMAIN MetadataProperties)
           \cup DottedKeys("query", FacetSet) |->
        IF k \in DottedKeys("metadata", DOMAIN MetadataProperties)
        THEN MetadataProperties[
                CHOOSE f \in DOMAIN MetadataProperties : Dotted("metadata", f) = k]
        ELSE QuerySchema.properties[
                CHOOSE f \in FacetSet : Dotted("query", f) = k]]

\* a schema that drops `required` from the metadata schema of every update,
\* whether or not the payload holds `metadata`
StatsSchemaUpdateRequiresNothing(data, method) ==
    LET metadata_schema ==
            ObjectSchema(MetadataProperties,
                         IF method # "post" THEN {} ELSE MetadataRequired)
        base == [k \in {"metadata", "query"} |->
                    IF k = "metadata" THEN metadata_schema ELSE QuerySchema]
    IN  IF method = "post"
        THEN ObjectSchema(base, {"metadata", "query"})
        ELSE ObjectSchema(
                [k \in DOMAIN base \cup DOMAIN DottedProperties |->
                    IF k \in DOMAIN DottedProperties
                    THEN DottedProperties[k] ELSE base[k]],
                {})

\* the schema validate_databrowser_stats builds for `data` and `method`
StatsSchema(data, method) ==
    LET metadata_schema ==
            ObjectSchema(MetadataProperties,
                         IF method # "post" /\ ~Has(data, "metadata")
                         THEN {} ELSE MetadataRequired)
        base == [k \in {"metadata", "query"} |->
                    IF k = "metadata" THEN metadata_schema ELSE QuerySchema]
    IN  IF method = "post"
        THEN ObjectSchema(base, {"metadata", "query"})
        ELSE ObjectSchema(
                [k \in DOMAIN base \cup DOMAIN DottedProperties |->
                    IF k \in DOMAIN DottedProperties
                    THEN DottedProperties[k] ELSE base[k]],
                {})

\* jsonschema.validate for the keywords the schemas use: type, properties,
\* required, additionalProperties: False
RECURSIVE Validate(_, _)

\* a validation that lets undeclared keys through (additionalProperties
\* left at its default)
ValidateOpen(inst, schema) ==
    CASE schema.type = "integer" -> inst.t = "int"
      [] schema.type = "string" -> inst.t = "str"
      [] schema.type = "object" ->
            /\ inst.t = "obj"
            /\ schema.required \subseteq Keys(inst)
            /\ \A i \in DOMAIN inst.v :
                  inst.v[i].k \in DOMAIN schema.properties =>
                      Validate(inst.v[i].v, schema.properties[inst.v[i].k])

Validate(inst, schema) ==
    CASE schema.type = "integer" -> inst.t = "int"
      [] schema.type = "string" -> inst.t = "str"
      [] schema.type = "object" ->
            /\ inst.t = "obj"
            /\ schema.required \subseteq Keys(inst)
            /\ Keys(inst) \subseteq DOMAIN schema.properties
            /\ \A i \in DOMAIN inst.v :
                  Validate(inst.v[i].v, schema.properties[inst.v[i].k])

\* TRUE when the payload passes, FALSE when HTTPException(422) is raised
validate_databrowser_stats(data, method) == Validate(data, StatsSchema(data, method))

-----------------------------------------------------------------------------
(* The token service.                                                       *)

\* os.environ["API_USERNAME"], os.environ["API_PASSWORD"]
ApiUsername == "stats"
ApiPassword == "secret"

\* hashlib.sha256(...).hexdigest(), a one-way function of its argument
Sha256(s) == <<"sha256", s>>

define_secret_key == Sha256(ApiUsername \o ApiPassword)

\* timedelta(days=1), in ticks of the model's clock
Day == 2

\* the UTC offsets the server's local time zone may have, in ticks
TzOffsets == {0 - 1, 0, 1}

\* a signed token: its claims and the key it was signed with
Jwt(payload, key) == [kind |-> "jwt", payload |-> payload, key |-> key]
\* a header value that is no token at all
Raw(s) == [kind |-> "raw", payload |-> S(s), key |-> <<"none", "">>]

\* datetime.utcnow() is naive, and timestamp() reads a naive datetime as
\* local time: the epoch it yields is off by the local UTC offset
NaiveUtcTimestamp(t) == t - tz

\* (token, exp) as create_oauth_token returns them at the current time
create_oauth_token(username, expiry) ==
    LET base == O(<<KV("sub", S(username))>>)
        exp == NaiveUtcTimestamp(now + Day)
    IN  IF expiry > 0 - 1
        THEN [token |-> Jwt(Put(base, "exp", I(exp)), define_secret_key),
              exp |-> I(exp)]
        ELSE [token |-> Jwt(base, define_secret_key), exp |-> Null]

\* jose.jwt.decode: TRUE unless it raises a JWTError (no token, wrong
\* signature, or an exp claim that lies before the current time)
JwtDecodes(tok, key) ==
    /\ tok.kind = "jwt"
    /\ tok.key = key
    /\ Has(tok.payload, "exp") => Get(tok.payload, "exp").v >= now

\* TRUE when the token passes, FALSE when HTTPException(401) is raised
validate_token(access_token) == JwtDecodes(access_token, define_secret_key)

-----------------------------------------------------------------------------
(* The record store adapter.                                                *)

\* project names, as the sequence of their dot-free segments
ExampleProject == <<"example-project">>
ProjectNames == {<<"tests">>, ExampleProject}

\* project names that contain a dot
DottedProjectNames == {<<"a">>, <<"a", "b">>}

\* a key split at every dot, its first and last part kept
MongoKeySplitAll(key) == [db |-> Head(key), collection |-> <<key[Len(key)]>>]

\* MongoDB.__getitem__: db, _, collection = key.partition(".")
MongoKey(key) == [db |-> Head(key), collection |-> Tail(key)]

\* mongo_client[f"{db_name}.{collection_name}"]
Collection(db_name, collection_name) == MongoKey(db_name \o <<collection_name>>)

Collections ==
    {Collection(p, "search_queries") : p \in ProjectNames \cup DottedProjectNames}

\* an identifier check that lets every string through
IsObjectIdAny(stat_id) == TRUE

\* bson.objectid.ObjectId(stat_id): TRUE unless it raises InvalidId
IsObjectId(stat_id) == stat_id > 0

Document(id, data) ==
    [id |-> id, metadata |-> Get(data, "metadata"), query |-> Get(data, "query")]

FieldNames == DOMAIN MetadataProperties \cup FacetSet

IsDottedUnder(key, top) == \E f \in FieldNames : key = Dotted(top, f)

\* the store refuses a $set that names a sub-document and a path inside it
\* (WriteError: updating the path would create a conflict)
PathConflict(data) ==
    \E top \in {"metadata", "query"} :
        Has(data, top) /\ \E k \in Keys(data) : IsDottedUnder(k, top)

\* one key of a $set applied to a document
SetField(doc, key, val) ==
    CASE key = "metadata" -> [doc EXCEPT !.metadata = val]
      [] key = "query" -> [doc EXCEPT !.query = val]
      [] IsDottedUnder(key, "metadata") ->
            [doc EXCEPT !.metadata =
                Put(@, CHOOSE f \in FieldNames : key = Dotted("metadata", f), val)]
      [] IsDottedUnder(key, "query") ->
            [doc EXCEPT !.query =
                Put(@, CHOOSE f \in FieldNames : key = Dotted("query", f), val)]

RECURSIVE ApplySet(_, _)
\* an update that writes the listed fields over an empty document, as a
\* replacement does, in place of $set
ApplySetReplacing(doc, pairs) ==
    IF pairs = <<>> THEN doc
    ELSE ApplySet(SetField([doc EXCEPT !.metadata = O(<<>>), !.query = O(<<>>)],
                           Head(pairs).k, Head(pairs).v),
                  Tail(pairs))

ApplySet(doc, pairs) ==
    IF pairs = <<>> THEN doc
    ELSE ApplySet(SetField(doc, Head(pairs).k, Head(pairs).v), Tail(pairs))

IndexOf(docs, id) ==
    IF \E i \in DOMAIN docs : docs[i].id = id
    THEN CHOOSE i \in DOMAIN docs : docs[i].id = id
    ELSE 0

\* collection.update_one({"_id": id}, {"$set": data})
update_one(docs, id, data) ==
    LET i == IndexOf(docs, id)
        after == IF i = 0 THEN docs
                 ELSE [docs EXCEPT ![i] = ApplySet(docs[i], data.v)]
    IN  IF PathConflict(data)
        THEN [raised |-> TRUE, modified_count |-> 0, docs |-> docs]
        ELSE [raised |-> FALSE,
              modified_count |-> IF after # docs THEN 1 ELSE 0,
              docs |-> after]

\* delete_one with a deleted_count that does not look at the collection
delete_one_counts_one(docs, id) ==
    [deleted_count |-> 1, docs |-> SelectSeq(docs, LAMBDA d : d.id # id)]

\* collection.delete_one({"_id": id})
delete_one(docs, id) ==
    LET i == IndexOf(docs, id)
    IN  [deleted_count |-> IF i = 0 THEN 0 ELSE 1,
         docs |-> SelectSeq(docs, LAMBDA d : d.id # id)]

\* insert_mongo_db_data without the modified_count check
insert_mongo_db_data_unchecked(db_name, collection_name, key, data) ==
    LET c == Collection(db_name, collection_name)
        upd == update_one(store[c], key.v, data)
    IN  IF key = Null
        THEN [status |-> 0, key |-> I(nextId), calls |-> <<"insert_one">>,
              store |-> [store EXCEPT ![c] = Append(@, Document(nextId, data))]]
        ELSE IF ~IsObjectId(key.v)
        THEN [status |-> 500, key |-> key, calls |-> <<>>, store |-> store]
        ELSE IF upd.raised
        THEN [status |-> 500, key |-> key, calls |-> <<"update_one">>,
              store |-> store]
        ELSE [status |-> 0, key |-> key, calls |-> <<"update_one">>,
              store |-> [store EXCEPT ![c] = upd.docs]]

\* insert_mongo_db_data: status 0 when it returns, else the HTTPException
\* it raises (or the 500 of an error the store raised)
insert_mongo_db_data(db_name, collection_name, key, data) ==
    LET c == Collection(db_name, collection_name)
        upd == update_one(store[c], key.v, data)
    IN  IF key = Null
        THEN [status |-> 0, key |-> I(nextId), calls |-> <<"insert_one">>,
              store |-> [store EXCEPT ![c] = Append(@, Document(nextId, data))]]
        ELSE IF ~IsObjectId(key.v)
        THEN [status |-> 500, key |-> key, calls |-> <<>>, store |-> store]
        ELSE IF upd.raised
        THEN [status |-> 500, key |-> key, calls |-> <<"update_one">>,
              store |-> store]
        ELSE [status |-> IF upd.modified_count = 0 THEN 304 ELSE 0,
              key |-> key, calls |-> <<"update_one">>,
              store |-> [store EXCEPT ![c] = upd.docs]]

-----------------------------------------------------------------------------
(* The query builder and the store's matching of a filter.                  *)

\* the timestamp strings of the model: TimeString(n) reads as the naive
\* time n, TimeOnly as a time of day without a date, and any other string
\* makes dateutil raise ParserError
TimeString(n) == "T" \o ToString(n)
TimeRange == 0..MaxTime
TimeOnly == "12:00"
Parsable(timestamp) ==
    timestamp = TimeOnly \/ \E n \in TimeRange : TimeString(n) = timestamp

\* datetime(9999, 12, 31, 23, 59, 59) and datetime(1, 1, 1, 0, 0, 0), the
\* ends of the datetime range, on the model's scale
DateMax == 1000
DateMin == 0 - DateMax

\* defaults = (datetime(1, 1, 1, 0, 0, 0), datetime(9999, 12, 31, 23, 59, 59)),
\* for `before` and `after`
Defaults == <<DateMin, DateMax>>

\* parse_time(timestamp, default=default): what the string leaves out is
\* taken from the default, so a time of day lands on the default's date
parse_time(timestamp, default) ==
    IF timestamp = TimeOnly
    THEN (IF default = DateMin THEN DateMin + 1 ELSE DateMax - 1)
    ELSE CHOOSE n \in TimeRange : TimeString(n) = timestamp

\* datetime.astimezone(timezone.utc) of a naive datetime, read as local time
AsTimezoneUtc(t) == t - tz

\* astimezone raises (ValueError or OverflowError, no ParserError) when the
\* local time lies in the first day of the range or the UTC time outside it
AsTimezoneRaises(t) ==
    \/ t < DateMin + Day
    \/ AsTimezoneUtc(t) < DateMin
    \/ AsTimezoneUtc(t) > DateMax

\* get_date_query(before, after): the query, or `raised` when an exception
\* other than ParserError leaves the function
get_date_query(before, after) ==
    LET use(timestamp) == timestamp # Null /\ Parsable(timestamp.v)
        lte == IF use(before)
               THEN <<KV("$lte", D(AsTimezoneUtc(parse_time(before.v, Defaults[1]))))>>
               ELSE <<>>
        gte == IF use(after)
               THEN <<KV("$gte", D(AsTimezoneUtc(parse_time(after.v, Defaults[2]))))>>
               ELSE <<>>
    IN  IF \/ use(before) /\ AsTimezoneRaises(parse_time(before.v, Defaults[1]))
           \/ use(after) /\ AsTimezoneRaises(parse_time(after.v, Defaults[2]))
        THEN [raised |-> TRUE, query |-> O(<<>>)]
        ELSE [raised |-> FALSE, query |-> O(lte \o gte)]

Regex(v) == O(<<KV("$regex", v), KV("$options", S("ix"))>>)

RECURSIVE PutAll(_, _)
PutAll(o, pairs) ==
    IF pairs = <<>> THEN o
    ELSE PutAll(Put(o, Head(pairs).k, Head(pairs).v), Tail(pairs))

\* a filter that puts server_status on the field of its own name
MongoQueryOwnField(q) ==
    LET regexes ==
            SelectSeq(<<KV("metadata.num_results", q.num_results),
                        KV("metadata.flavour", q.flavour),
                        KV("metadata.uniq_key", q.uniq_key)>>,
                      LAMBDA p : p.v # Null)
        m0 == O([i \in DOMAIN regexes |-> KV(regexes[i].k, Regex(regexes[i].v))])
        m1 == IF q.num_results # Null
              THEN Put(m0, "metadata.num_results",
                       O(<<KV("$" \o q.results_operator, q.num_results)>>))
              ELSE m0
        m2 == IF q.server_status # Null
              THEN Put(m1, "metadata.server_status", q.server_status)
              ELSE m1
        date_query == get_date_query(q.before, q.after).query
        m3 == IF date_query.v # <<>>
              THEN Put(m2, "metadata.date", date_query)
              ELSE m2
        facets == SelectSeq([i \in DOMAIN FacetKeys |->
                                KV(FacetKeys[i], q.facets[FacetKeys[i]])],
                            LAMBDA p : p.v # Null)
    IN  PutAll(m3, [i \in DOMAIN facets |->
                        KV(Dotted("query", facets[i].k), Regex(facets[i].v))])

\* the filter query_databrowser compiles from its query parameters
MongoQuery(q) ==
    LET regexes ==
            SelectSeq(<<KV("metadata.num_results", q.num_results),
                        KV("metadata.flavour", q.flavour),
                        KV("metadata.uniq_key", q.uniq_key)>>,
                      LAMBDA p : p.v # Null)
        m0 == O([i \in DOMAIN regexes |-> KV(regexes[i].k, Regex(regexes[i].v))])
        m1 == IF q.num_results # Null
              THEN Put(m0, "metadata.num_results",
                       O(<<KV("$" \o q.results_operator, q.num_results)>>))
              ELSE m0
        m2 == IF q.server_status # Null
              THEN Put(m1, "metadata.num_results", q.server_status)
              ELSE m1
        date_query == get_date_query(q.before, q.after).query
        m3 == IF date_query.v # <<>>
              THEN Put(m2, "metadata.date", date_query)
              ELSE m2
        facets == SelectSeq([i \in DOMAIN FacetKeys |->
                                KV(FacetKeys[i], q.facets[FacetKeys[i]])],
                            LAMBDA p : p.v # Null)
    IN  PutAll(m3, [i \in DOMAIN facets |->
                        KV(Dotted("query", facets[i].k), Regex(facets[i].v))])

\* the strings of the model that contain another as a substring
Substrings == {<<"cmip", "cmip5">>, <<"cmip", "cmip6">>, <<"fre", "freva">>}

\* a case-insensitive regular-expression search of a literal pattern
RegexSearch(pattern, string) ==
    pattern = string \/ <<pattern, string>> \in Substrings

\* the value a document holds under a dotted path, Absent if it holds none
FieldValue(doc, path) ==
    IF IsDottedUnder(path, "metadata")
    THEN GetOr(doc.metadata,
               CHOOSE f \in FieldNames : path = Dotted("metadata", f), Absent)
    ELSE GetOr(doc.query,
               CHOOSE f \in FieldNames : path = Dotted("query", f), Absent)

\* one operator of a condition document against a value
MatchOperator(val, op, arg) ==
    CASE op = "$regex" -> val.t = "str" /\ arg.t = "str" /\ RegexSearch(arg.v, val.v)
      [] op = "$options" -> TRUE
      [] op = "$eq" -> val = arg
      [] OTHER ->
            /\ val.t = arg.t
            /\ val.t \in {"int", "date"}
            /\ CASE op = "$gte" -> val.v >= arg.v
                 [] op = "$lte" -> val.v <= arg.v
                 [] op = "$gt" -> val.v > arg.v
                 [] op = "$lt" -> val.v < arg.v

\* a condition is a document of operators or a value to equal
MatchCondition(val, cond) ==
    IF cond.t = "obj"
    THEN \A i \in DOMAIN cond.v : MatchOperator(val, cond.v[i].k, cond.v[i].v)
    ELSE val = cond

Matches(doc, mongo_query) ==
    \A i \in DOMAIN mongo_query.v :
        MatchCondition(FieldValue(doc, mongo_query.v[i].k), mongo_query.v[i].v)

\* collection.find(mongo_query), in the collection's order
find(docs, mongo_query) == SelectSeq(docs, LAMBDA d : Matches(d, mongo_query))

\* count_documents that ignores the filter
count_documents_unfiltered(docs, mongo_query) == Len(docs)

\* collection.count_documents(mongo_query)
count_documents(docs, mongo_query) == Len(find(docs, mongo_query))

-----------------------------------------------------------------------------
(* The CSV streaming exporter.                                              *)

\* datetime.isoformat() of a UTC timestamp
IsoFormat(n) == "T" \o ToString(n) \o "+00:00"

\* str(value)
Str(val) ==
    CASE val.t = "int" -> ToString(val.v)
      [] val.t = "date" -> IsoFormat(val.v)
      [] OTHER -> val.v

RECURSIVE Join(_, _)
\* sep.join(fields)
Join(fields, sep) ==
    IF fields = <<>> THEN ""
    ELSE IF Len(fields) = 1 THEN fields[1]
    ELSE fields[1] \o sep \o Join(Tail(fields), sep)

\* a line the exporter yields: its fields, and the text they are joined to
Line(fields) == [fields |-> fields, text |-> Join(fields, ",") \o "\n"]

\* result = {"id": document["_id"], **document["metadata"]}, the date
\* rendered as text when it is a datetime; then the facets are added
ResultOf(document) ==
    LET merged == PutAll(O(<<KV("id", S(ToString(document.id)))>>),
                         document.metadata.v)
    IN  IF GetOr(merged, "date", Absent).t = "date"
        THEN Put(merged, "date", S(IsoFormat(Get(merged, "date").v)))
        ELSE merged

\* facets read with document["query"].get(facet), without the default
WithFacetsNoDefault(result, document) ==
    PutAll(result, [i \in DOMAIN FacetKeys |->
                        KV(FacetKeys[i],
                           GetOr(document.query, FacetKeys[i], S("None")))])

WithFacets(result, document) ==
    PutAll(result, [i \in DOMAIN FacetKeys |->
                        KV(FacetKeys[i], GetOr(document.query, FacetKeys[i], S("")))])

RECURSIVE CsvLines(_, _)

\* an exporter that yields the header in place of the first document's row
CsvLinesHeaderOnly(documents, header) ==
    IF documents = <<>> THEN <<>>
    ELSE LET result == ResultOf(Head(documents))
             row == WithFacets(result, Head(documents))
         IN  IF header = <<>>
             THEN <<Line([i \in DOMAIN result.v |-> result.v[i].k] \o FacetKeys)>>
                  \o CsvLines(Tail(documents),
                              [i \in DOMAIN result.v |-> result.v[i].k] \o FacetKeys)
             ELSE <<Line([i \in DOMAIN row.v |-> Str(row.v[i].v)])>>
                  \o CsvLines(Tail(documents), header)

\* an exporter that yields the header anew before every document's row
CsvLinesRepeatHeader(documents, header) ==
    IF documents = <<>> THEN <<>>
    ELSE LET result == ResultOf(Head(documents))
             row == WithFacets(result, Head(documents))
         IN  <<Line([i \in DOMAIN result.v |-> result.v[i].k] \o FacetKeys)>>
             \o <<Line([i \in DOMAIN row.v |-> Str(row.v[i].v)])>>
             \o CsvLines(Tail(documents), header)

\* the lines databrowser_stats_csv_stream yields over the fetched documents
CsvLines(documents, header) ==
    IF documents = <<>> THEN <<>>
    ELSE LET result == ResultOf(Head(documents))
             new == IF header = <<>>
                    THEN [i \in DOMAIN result.v |-> result.v[i].k] \o FacetKeys
                    ELSE header
             row == WithFacets(result, Head(documents))
         IN  (IF header = <<>> THEN <<Line(new)>> ELSE <<>>)
             \o <<Line([i \in DOMAIN row.v |-> Str(row.v[i].v)])>>
             \o CsvLines(Tail(documents), new)

databrowser_stats_csv_stream(db_name, mongo_query) ==
    CsvLines(find(store[Collection(db_name, "search_queries")], mongo_query), <<>>)

-----------------------------------------------------------------------------
(* The request handlers.                                                    *)

NoId == 0 - 1
NoStream == [project_name |-> <<>>, mongo_query |-> Null]
NoParams ==
    [num_results |-> Null, results_operator |-> "gte", flavour |-> Null,
     uniq_key |-> Null, server_status |-> Null, before |-> Null, after |-> Null,
     facets |-> [f \in FacetSet |-> Null]]

Response(op, project_name, stat_id, access_token, payload, status) ==
    [op |-> op, project_name |-> project_name, stat_id |-> stat_id,
     access_token |-> access_token, payload |-> payload, status |-> status,
     id |-> Null, calls |-> <<>>, params |-> NoParams, mongo_query |-> Null,
     lines |-> <<>>]

IdleResponse == Response("none", <<>>, NoId, Raw(""), Null, 0)

\* the request body parsed into DataBrowserStatsModel: metadata is a
\* Dict[str, Union[int, str, datetime]], query a Dict[str, str]
ModelAccepts(body) ==
    /\ body.t = "obj"
    /\ Has(body, "metadata") /\ Has(body, "query")
    /\ Get(body, "metadata").t = "obj" /\ Get(body, "query").t = "obj"
    /\ \A i \in DOMAIN Get(body, "metadata").v :
            Get(body, "metadata").v[i].v.t \in {"int", "str"}
    /\ \A i \in DOMAIN Get(body, "query").v :
            Get(body, "query").v[i].v.t = "str"

\* payload.dict(): the model's two fields, whatever else the body held
ModelDict(body) ==
    O(<<KV("metadata", Get(body, "metadata")), KV("query", Get(body, "query"))>>)

\* a create handler without the shortcut of the documentation namespace
add_databrowser_stats_no_shortcut(project_name, body) ==
    LET r0 == Response("POST", project_name, NoId, Raw(""), body, 0)
        data == DropNone(ModelDict(body))
        dated == Put(data, "metadata", Put(Get(data, "metadata"), "date", D(now)))
        ins == insert_mongo_db_data(project_name, "search_queries", Null, dated)
    IN  /\ resp = IdleResponse
        /\ UNCHANGED <<pending, updated, tokenVars, validatorVars, now, tz,
                       inflight>>
        /\ IF ~ModelAccepts(body)
           THEN /\ resp' = [r0 EXCEPT !.status = 422]
                /\ UNCHANGED <<store, nextId, created>>
           ELSE IF ~validate_databrowser_stats(data, "post")
           THEN /\ resp' = [r0 EXCEPT !.status = 422]
                /\ UNCHANGED <<store, nextId, created>>
           ELSE /\ nextId <= MaxIds
                /\ resp' = [r0 EXCEPT !.status = 201, !.id = ins.key,
                                      !.calls = ins.calls]
                /\ store' = ins.store
                /\ nextId' = nextId + 1
                /\ created' = created \cup
                        {[project_name |-> project_name, id |-> ins.key.v,
                          at |-> now,
                          metadata |-> Get(data, "metadata"),
                          query |-> Get(data, "query")]}

\* POST /api/storage/stats/{project_name}/databrowser
add_databrowser_stats(project_name, body) ==
    LET r0 == Response("POST", project_name, NoId, Raw(""), body, 0)
        data == DropNone(ModelDict(body))
        dated == Put(data, "metadata", Put(Get(data, "metadata"), "date", D(now)))
        ins == insert_mongo_db_data(project_name, "search_queries", Null, dated)
    IN  /\ resp = IdleResponse
        /\ UNCHANGED <<pending, updated, tokenVars, validatorVars, now, tz,
                       inflight>>
        /\ IF ~ModelAccepts(body)
           THEN /\ resp' = [r0 EXCEPT !.status = 422]
                /\ UNCHANGED <<store, nextId, created>>
           ELSE IF project_name = ExampleProject
           THEN /\ resp' = [r0 EXCEPT !.status = 201]
                /\ UNCHANGED <<store, nextId, created>>
           ELSE IF ~validate_databrowser_stats(data, "post")
           THEN /\ resp' = [r0 EXCEPT !.status = 422]
                /\ UNCHANGED <<store, nextId, created>>
           ELSE /\ nextId <= MaxIds
                /\ resp' = [r0 EXCEPT !.status = 201, !.id = ins.key,
                                      !.calls = ins.calls]
                /\ store' = ins.store
                /\ nextId' = nextId + 1
                /\ created' = created \cup
                        {[project_name |-> project_name, id |-> ins.key.v,
                          at |-> now,
                          metadata |-> Get(data, "metadata"),
                          query |-> Get(data, "query")]}

\* an update handler that verifies the token only after the write
replace_databrowser_stats_late_check(project_name, stat_id, payload, access_token) ==
    LET r0 == Response("PUT", project_name, stat_id, access_token, payload, 0)
        data == DropNone(payload)
        ins == insert_mongo_db_data(project_name, "search_queries", I(stat_id), data)
    IN  /\ resp = IdleResponse
        /\ UNCHANGED <<pending, nextId, created, tokenVars, validatorVars, now, tz,
                       inflight>>
        /\ IF project_name = ExampleProject /\ access_token = Raw("my-token")
           THEN /\ resp' = [r0 EXCEPT !.status = 200]
                /\ UNCHANGED <<store, updated>>
           ELSE IF ~validate_databrowser_stats(data, "put")
           THEN /\ resp' = [r0 EXCEPT !.status = 422]
                /\ UNCHANGED <<store, updated>>
           ELSE IF ins.status # 0
           THEN /\ resp' = [r0 EXCEPT !.status = ins.status, !.calls = ins.calls]
                /\ UNCHANGED <<store, updated>>
           ELSE /\ resp' = [r0 EXCEPT
                                !.status = IF validate_token(access_token)
                                           THEN 200 ELSE 401,
                                !.calls = ins.calls]
                /\ store' = ins.store
                /\ updated' = updated \cup {stat_id}

\* PUT /api/storage/stats/{project_name}/databrowser/{stat_id}
replace_databrowser_stats(project_name, stat_id, payload, access_token) ==
    LET r0 == Response("PUT", project_name, stat_id, access_token, payload, 0)
        data == DropNone(payload)
        ins == insert_mongo_db_data(project_name, "search_queries", I(stat_id), data)
    IN  /\ resp = IdleResponse
        /\ UNCHANGED <<pending, nextId, created, tokenVars, validatorVars, now, tz,
                       inflight>>
        /\ IF project_name = ExampleProject /\ access_token = Raw("my-token")
           THEN /\ resp' = [r0 EXCEPT !.status = 200]
                /\ UNCHANGED <<store, updated>>
           ELSE IF ~validate_token(access_token)
           THEN /\ resp' = [r0 EXCEPT !.status = 401]
                /\ UNCHANGED <<store, updated>>
           ELSE IF ~validate_databrowser_stats(data, "put")
           THEN /\ resp' = [r0 EXCEPT !.status = 422]
                /\ UNCHANGED <<store, updated>>
           ELSE IF ins.status # 0
           THEN /\ resp' = [r0 EXCEPT !.status = ins.status, !.calls = ins.calls]
                /\ UNCHANGED <<store, updated>>
           ELSE /\ resp' = [r0 EXCEPT !.status = 200, !.calls = ins.calls]
                /\ store' = ins.store
                /\ updated' = updated \cup {stat_id}

\* a delete handler that converts the identifier before it checks the token
delete_statistics_by_index_id_first(project_name, stat_id, access_token) ==
    LET r0 == Response("DELETE", project_name, stat_id, access_token, Null, 0)
        c == Collection(project_name, "search_queries")
        result == delete_one(store[c], stat_id)
    IN  /\ resp = IdleResponse
        /\ UNCHANGED <<pending, nextId, tokenVars, validatorVars, now, tz,
                       inflight>>
        /\ IF project_name = ExampleProject /\ access_token = Raw("my-token")
           THEN /\ resp' = [r0 EXCEPT !.status = 204]
                /\ UNCHANGED <<store, created, updated>>
           ELSE IF ~IsObjectId(stat_id)
           THEN /\ resp' = [r0 EXCEPT !.status = 500]
                /\ UNCHANGED <<store, created, updated>>
           ELSE IF ~validate_token(access_token)
           THEN /\ resp' = [r0 EXCEPT !.status = 401]
                /\ UNCHANGED <<store, created, updated>>
           ELSE IF result.deleted_count = 0
           THEN /\ resp' = [r0 EXCEPT !.status = 404, !.calls = <<"delete_one">>]
                /\ UNCHANGED <<store, created, updated>>
           ELSE /\ resp' = [r0 EXCEPT !.status = 204, !.calls = <<"delete_one">>]
                /\ store' = [store EXCEPT ![c] = result.docs]
                /\ created' = {h \in created : h.id # stat_id}
                /\ updated' = updated \ {stat_id}

\* DELETE /api/storage/stats/{project_name}/databrowser/{stat_id}
delete_statistics_by_index(project_name, stat_id, access_token) ==
    LET r0 == Response("DELETE", project_name, stat_id, access_token, Null, 0)
        c == Collection(project_name, "search_queries")
        result == delete_one(store[c], stat_id)
    IN  /\ resp = IdleResponse
        /\ UNCHANGED <<pending, nextId, tokenVars, validatorVars, now, tz,
                       inflight>>
        /\ IF project_name = ExampleProject /\ access_token = Raw("my-token")
           THEN /\ resp' = [r0 EXCEPT !.status = 204]
                /\ UNCHANGED <<store, created, updated>>
           ELSE IF ~validate_token(access_token)
           THEN /\ resp' = [r0 EXCEPT !.status = 401]
                /\ UNCHANGED <<store, created, updated>>
           ELSE IF ~IsObjectId(stat_id)
           THEN /\ resp' = [r0 EXCEPT !.status = 500]
                /\ UNCHANGED <<store, created, updated>>
           ELSE IF result.deleted_count = 0
           THEN /\ resp' = [r0 EXCEPT !.status = 404, !.calls = <<"delete_one">>]
                /\ UNCHANGED <<store, created, updated>>
           ELSE /\ resp' = [r0 EXCEPT !.status = 204, !.calls = <<"delete_one">>]
                /\ store' = [store EXCEPT ![c] = result.docs]
                /\ created' = {h \in created : h.id # stat_id}
                /\ updated' = updated \ {stat_id}

\* GET /api/storage/stats/{project_name}/databrowser, up to the response:
\* the token check, the filter and the count; the body is streamed later
query_databrowser(project_name, q, access_token) ==
    LET r0 == [Response("GET", project_name, NoId, access_token, Null, 0)
                  EXCEPT !.params = q]
        mongo_query == MongoQuery(q)
        count == count_documents(store[Collection(project_name, "search_queries")],
                                 mongo_query)
    IN  /\ resp = IdleResponse
        /\ pending = NoStream
        /\ UNCHANGED <<store, nextId, created, updated, tokenVars,
                       validatorVars, now, tz, inflight>>
        /\ IF /\ project_name # ExampleProject /\ access_token # Raw("my-token")
              /\ ~validate_token(access_token)
           THEN /\ resp' = [r0 EXCEPT !.status = 401]
                /\ UNCHANGED pending
           ELSE IF get_date_query(q.before, q.after).raised
           THEN /\ resp' = [r0 EXCEPT !.status = 500]
                /\ UNCHANGED pending
           ELSE IF count = 0
           THEN /\ resp' = [r0 EXCEPT !.status = 404, !.mongo_query = mongo_query,
                                      !.calls = <<"count_documents">>]
                /\ UNCHANGED pending
           ELSE /\ resp' = [r0 EXCEPT !.status = 200, !.mongo_query = mongo_query,
                                      !.calls = <<"count_documents">>]
                /\ pending' = [project_name |-> project_name,
                               mongo_query |-> mongo_query]

\* the StreamingResponse consumes databrowser_stats_csv_stream
StreamBody ==
    /\ resp = IdleResponse
    /\ pending # NoStream
    /\ resp' = [Response("STREAM", pending.project_name, NoId, Raw(""), Null, 200)
                   EXCEPT !.mongo_query = pending.mongo_query,
                          !.calls = <<"find">>,
                          !.lines = databrowser_stats_csv_stream(
                                        pending.project_name, pending.mongo_query)]
    /\ pending' = NoStream
    /\ UNCHANGED <<store, nextId, created, updated, tokenVars, validatorVars,
                   now, tz, inflight>>

\* the response is sent and the handler returns
Respond ==
    /\ resp # IdleResponse
    /\ resp' = IdleResponse
    /\ UNCHANGED <<store, nextId, pending, created, updated, tokenVars,
                   validatorVars, now, tz, inflight>>

-----------------------------------------------------------------------------
(* An update handled as the event loop runs it: the handler runs up to the  *)
(* await of update_one, the store applies the update, the handler resumes.  *)
(* Several such requests are in flight at once, one per slot.               *)

Slots == {"a", "b"}

IdleRequest ==
    [pc |-> "idle", project_name |-> <<>>, stat_id |-> NoId, access_token |-> Raw(""),
     payload |-> Null, status |-> 0, before |-> Null, after |-> Null]

\* the document with the identifier, or Null when the collection has none
DocOrNull(docs, id) == IF id \in {docs[i].id : i \in DOMAIN docs}
                       THEN docs[CHOOSE i \in DOMAIN docs : docs[i].id = id]
                       ELSE Null

\* replace_databrowser_stats up to the await of update_one: the shortcut,
\* the token check, the validation and the conversion of the identifier
PutReceive(r, project_name, stat_id, payload, access_token) ==
    LET req == [IdleRequest EXCEPT !.project_name = project_name,
                                   !.stat_id = stat_id,
                                   !.access_token = access_token,
                                   !.payload = payload]
        answered(status) == [req EXCEPT !.pc = "done", !.status = status]
    IN  /\ inflight[r].pc = "idle"
        /\ inflight' = [inflight EXCEPT ![r] =
                IF project_name = ExampleProject /\ access_token = Raw("my-token")
                THEN answered(200)
                ELSE IF ~validate_token(access_token) THEN answered(401)
                ELSE IF ~validate_databrowser_stats(DropNone(payload), "put")
                THEN answered(422)
                ELSE IF ~IsObjectId(stat_id) THEN answered(500)
                ELSE [req EXCEPT !.pc = "awaiting"]]
        /\ UNCHANGED <<storeVars, tokenVars, validatorVars, now, tz>>

\* the store applies the update_one the handler awaits, in one step, and
\* the handler reads modified_count
PutStoreUpdate(r) ==
    LET q == inflight[r]
        c == Collection(q.project_name, "search_queries")
        ins == insert_mongo_db_data(q.project_name, "search_queries",
                                    I(q.stat_id), DropNone(q.payload))
    IN  /\ q.pc = "awaiting"
        /\ store' = IF ins.status = 0 THEN ins.store ELSE store
        /\ updated' = IF ins.status = 0 THEN updated \cup {q.stat_id} ELSE updated
        /\ inflight' = [inflight EXCEPT ![r] =
                [q EXCEPT !.pc = "done",
                          !.status = IF ins.status = 0 THEN 200 ELSE ins.status,
                          !.before = DocOrNull(store[c], q.stat_id),
                          !.after = IF ins.status = 0
                                    THEN DocOrNull(ins.store[c], q.stat_id)
                                    ELSE DocOrNull(store[c], q.stat_id)]]
        /\ UNCHANGED <<nextId, resp, pending, created, tokenVars, validatorVars,
                       now, tz>>

\* the response of the update is sent
PutReturn(r) ==
    /\ inflight[r].pc = "done"
    /\ inflight' = [inflight EXCEPT ![r].pc = "returned"]
    /\ UNCHANGED <<storeVars, tokenVars, validatorVars, now, tz>>

-----------------------------------------------------------------------------
(* The token specification: tokens are issued and verified while time      *)
(* passes.                                                                  *)

Expiries == {0 - 1, 0, 1, 30}

\* header values that were never issued: missing/empty, the demo string of
\* the documentation, no token at all, tokens signed with another key
ForgedTokens ==
    {Raw(""), Raw("my-token"), Raw("garbage"),
     Jwt(O(<<KV("sub", S(ApiUsername))>>), Sha256("guess"))}

\* tokens signed with the service's key that create_oauth_token did not
\* make: one without a subject, one whose expiry is the start of the run
SubjectlessToken == Jwt(O(<<>>), define_secret_key)
SignedTokens ==
    {SubjectlessToken,
     Jwt(O(<<KV("sub", S(ApiUsername)), KV("exp", I(0))>>), define_secret_key)}

\* the credentials a client presents, right or wrong
Usernames == {ApiUsername, ApiPassword, "bar"}
Passwords == {ApiPassword, ApiUsername, "foo"}

\* the expires_in query parameter: absent, no number, or a number
ExpiresIn == {Null, S("a")} \cup {I(e) : e \in Expiries}

\* get_oauth_credentials(): the two secrets of the environment
get_oauth_credentials == [username |-> ApiUsername, password |-> ApiPassword]

TokenResponse(op, status) ==
    [op |-> op, token |-> Raw(""), token_type |-> "", expiry |-> 0,
     exp |-> Null, status |-> status, at |-> now, username |-> "",
     password |-> ""]

IdleTokResp == [TokenResponse("none", 0) EXCEPT !.at = 0]

\* a check that turns away only those who get both secrets wrong
InvalidCredentialsBoth(credentials, oauth_credentials) ==
    /\ credentials.username # oauth_credentials.username
    /\ credentials.password # oauth_credentials.password

\* the condition under which login_for_access_token raises 401
InvalidCredentials(credentials, oauth_credentials) ==
    \/ credentials.username # oauth_credentials.username
    \/ credentials.password # oauth_credentials.password

\* POST /api/token
login_for_access_token(username, password, expires_in) ==
    LET credentials == [username |-> username, password |-> password]
        expiry == IF expires_in.t = "int" THEN expires_in.v ELSE 1
        r == create_oauth_token(username, expiry)
        r0 == [TokenResponse("denied", 401) EXCEPT !.username = username,
                                                   !.password = password]
    IN  /\ UNCHANGED <<storeVars, validatorVars, now, tz, inflight>>
        /\ IF InvalidCredentials(credentials, get_oauth_credentials)
           THEN /\ tokResp' = r0
                /\ UNCHANGED issued
           ELSE /\ Cardinality(issued) < MaxTokens
                /\ issued' = issued \cup
                        {[token |-> r.token, at |-> now, expiry |-> expiry]}
                /\ tokResp' = [r0 EXCEPT !.op = "issue", !.status = 201,
                                         !.token = r.token,
                                         !.token_type = "bearer",
                                         !.expiry = expiry, !.exp = r.exp]

VerifyToken(tok) ==
    /\ tokResp' = [TokenResponse("verify",
                                 IF validate_token(tok) THEN 200 ELSE 401)
                      EXCEPT !.token = tok]
    /\ UNCHANGED <<storeVars, validatorVars, issued, now, tz, inflight>>

\* time passes
Tick ==
    /\ now < MaxTime
    /\ now' = now + 1
    /\ UNCHANGED <<storeVars, tokenVars, validatorVars, tz, inflight>>

-----------------------------------------------------------------------------
(* The validator specification: validate_databrowser_stats applied to      *)
(* payloads drawn from a bounded set.                                       *)

\* the object with the given keys, in order, leaving out absent values
Obj(pairs) == O(SelectSeq(pairs, LAMBDA p : p.v # Absent))

MetadataObjects ==
    {Obj(<<KV("num_results", n), KV("flavour", f), KV("uniq_key", u),
           KV("server_status", st), KV(x.k, x.v)>>) :
        n \in {Absent, I(5), I(0 - 1), S("foo")},
        f \in {Absent, S("freva"), I(1)},
        u \in {Absent, S("file"), S("foo")},
        st \in {Absent, I(200)},
        x \in {KV("date", Absent), KV("date", S("2024-01-30")),
               KV("date", I(3)), KV("foo", S("bar"))}}

QueryObjects ==
    {O(<<>>), O(<<KV("project", S("cmip6"))>>), O(<<KV("project", I(3))>>),
     O(<<KV("foo", S("bar"))>>),
     O(<<KV("project", S("cmip6")), KV("variable", S("tas"))>>)}

\* bodies with the two top-level parts, each possibly missing or no object
FullPayloads ==
    {Obj(<<KV("metadata", m), KV("query", q), KV(x.k, x.v)>>) :
        m \in MetadataObjects \cup {Absent, S("foo")},
        q \in QueryObjects \cup {Absent},
        x \in {KV("foo", Absent), KV("foo", S("bar"))}}

\* bodies of dotted keys, possibly next to a top-level part
DottedPayloads ==
    {Obj(<<KV("metadata", m), KV("query", q),
           KV("metadata.num_results", n), KV("metadata.flavour", f),
           KV("metadata.date", d), KV(x.k, x.v), KV("query.project", p)>>) :
        m \in {Absent,
               O(<<KV("num_results", I(5)), KV("flavour", S("freva")),
                   KV("uniq_key", S("file")), KV("server_status", I(200))>>),
               O(<<KV("num_results", I(2))>>)},
        q \in {Absent, O(<<KV("project", S("cmip6"))>>)},
        n \in {Absent, I(20), S("foo")},
        f \in {Absent, S("freva")},
        d \in {Absent, S("2024-01-30")},
        x \in {KV("metadata.foo", Absent), KV("metadata.foo", S("bar")),
               KV("query.foo", S("bar"))},
        p \in {Absent, S("cmip5"), I(3)}}

ValidatorPayloads == FullPayloads \cup DottedPayloads

Methods == {"post", "put"}

ValidateStats ==
    /\ vresult = "none"
    /\ vresult' = IF validate_databrowser_stats(vdata, vmethod) THEN "ok" ELSE "422"
    /\ UNCHANGED <<storeVars, tokenVars, vdata, vmethod, now, tz, inflight>>

-----------------------------------------------------------------------------
(* The service specification: requests arrive in any order while time       *)
(* passes.                                                                  *)

\* the token of the test suite's access_token fixture (expires_in = -1)
GoodToken == Jwt(O(<<KV("sub", S(ApiUsername))>>), define_secret_key)
\* a token issued earlier whose expiry is the start of the run
ExpiringToken ==
    Jwt(O(<<KV("sub", S(ApiUsername)), KV("exp", I(0))>>), define_secret_key)

ClientTokens == {GoodToken, ExpiringToken} \cup ForgedTokens

\* 0 is no ObjectId; MaxIds + 1 is one the store never assigns
StatIds == 0..(MaxIds + 1)

StatsMetadata ==
    O(<<KV("num_results", I(5)), KV("flavour", S("freva")),
        KV("uniq_key", S("file")), KV("server_status", I(200))>>)

\* the bodies of the test suite, and one whose values lie outside the
\* documented ranges, with a date and a key the model does not declare
CreateBodies ==
    {O(<<KV("metadata", StatsMetadata),
         KV("query", O(<<KV("project", S("cmip6"))>>))>>),
     O(<<KV("metadata",
            O(<<KV("date", S("2024-01-30")), KV("num_results", I(0 - 1)),
                KV("flavour", S("freva")), KV("uniq_key", S("foo")),
                KV("server_status", I(200))>>)),
         KV("query", O(<<KV("project", S("cmip6"))>>)),
         KV("foo", S("bar"))>>),
     O(<<KV("metadata", O(<<KV("foo", S("bar"))>>)),
         KV("query", O(<<KV("foo", S("bar"))>>))>>),
     O(<<KV("metadata", StatsMetadata)>>),
     O(<<KV("metadata", StatsMetadata),
         KV("query", O(<<KV("foo", S("bar"))>>))>>)}

UpdateBodies ==
    {O(<<KV("metadata.num_results", I(20)), KV("query.project", S("cmip5"))>>),
     O(<<KV("metadata", StatsMetadata),
         KV("query", O(<<KV("project", S("cmip6"))>>))>>),
     O(<<KV("metadata", StatsMetadata), KV("metadata.num_results", I(20))>>),
     O(<<KV("metadata", Null), KV("metadata.num_results", I(20)),
         KV("query.project", S("cmip5"))>>),
     O(<<KV("metadata.foo", S("bar"))>>),
     O(<<KV("query.foo", S("bar"))>>),
     O(<<KV("query", O(<<KV("foo", S("bar"))>>))>>),
     O(<<KV("metadata", O(<<KV("num_results", I(2))>>))>>),
     O(<<KV("metadata.num_results", S("foo"))>>)}

ReadParams ==
    {[NoParams EXCEPT !.server_status = st,
                      !.facets = [f \in FacetSet |->
                                     IF f = "project" THEN pr ELSE Null]] :
        st \in {Null, I(5)}, pr \in {Null, S("cmip")}}

ServiceTokens == {GoodToken, Raw("my-token"), Raw("")}

\* the state the three specifications share at their start
Idle ==
    /\ store = [c \in Collections |-> <<>>]
    /\ nextId = 1
    /\ now = 0
    /\ resp = IdleResponse
    /\ pending = NoStream
    /\ created = {}
    /\ updated = {}
    /\ issued = {}
    /\ tokResp = IdleTokResp
    /\ vresult = "none"
    /\ inflight = [r \in Slots |-> IdleRequest]

Init ==
    /\ Idle
    /\ tz = 0
    /\ vdata = O(<<>>)
    /\ vmethod = "post"

Next ==
    \/ \E p \in ProjectNames, b \in CreateBodies : add_databrowser_stats(p, b)
    \/ \E p \in ProjectNames, id \in StatIds, b \in UpdateBodies, t \in ServiceTokens :
            replace_databrowser_stats(p, id, b, t)
    \/ \E p \in ProjectNames, id \in StatIds, t \in ServiceTokens :
            delete_statistics_by_index(p, id, t)
    \/ \E p \in ProjectNames, q \in ReadParams, t \in ServiceTokens :
            query_databrowser(p, q, t)
    \/ StreamBody
    \/ Respond

Spec == Init /\ [][Next]_vars

TokenInit ==
    /\ Idle
    /\ tz \in TzOffsets
    /\ vdata = O(<<>>)
    /\ vmethod = "post"

TokenNext ==
    \/ \E u \in Usernames, p \in Passwords, e \in ExpiresIn :
            login_for_access_token(u, p, e)
    \/ \E t \in {i.token : i \in issued} \cup ForgedTokens \cup SignedTokens :
            VerifyToken(t)
    \/ Tick

TokenSpec == TokenInit /\ [][TokenNext]_vars

\* the isolation specification: the requests of the test suite addressed
\* to two namespaces whose names share their first segment
IsolationInit == Init

IsolationNext ==
    \/ \E p \in DottedProjectNames :
            add_databrowser_stats(p, O(<<KV("metadata", StatsMetadata),
                                        KV("query", O(<<KV("project", S("cmip6"))>>))>>))
    \/ \E p \in DottedProjectNames, id \in StatIds :
            replace_databrowser_stats(
                p, id, O(<<KV("metadata.num_results", I(20)),
                           KV("query.project", S("cmip5"))>>), GoodToken)
    \/ \E p \in DottedProjectNames, id \in StatIds :
            delete_statistics_by_index(p, id, GoodToken)
    \/ \E p \in DottedProjectNames : query_databrowser(p, NoParams, GoodToken)
    \/ StreamBody
    \/ Respond

IsolationSpec == IsolationInit /\ [][IsolationNext]_vars

\* the read specification: records are created as time passes and read
\* with the filters of the test suite, on a server in any time zone
QueryBodies ==
    {O(<<KV("metadata", StatsMetadata),
         KV("query", O(<<KV("project", S("cmip6"))>>))>>),
     O(<<KV("metadata",
            O(<<KV("num_results", I(200)), KV("flavour", S("freva")),
                KV("uniq_key", S("file")), KV("server_status", I(500))>>)),
         KV("query", O(<<KV("project", S("cmip5"))>>))>>)}

QueryParams ==
    {[NoParams EXCEPT !.num_results = n, !.results_operator = op,
                      !.server_status = st, !.before = b, !.after = a] :
        n \in {Null, I(5)}, op \in {"gte", "lt"}, st \in {Null, I(200)},
        b \in {Null, S(TimeString(1)), S("foo"), S(TimeOnly)},
        a \in {Null, S(TimeString(1)), S("foo")}}

QueryInit ==
    /\ Idle
    /\ tz \in TzOffsets
    /\ vdata = O(<<>>)
    /\ vmethod = "post"

QueryNext ==
    \/ \E b \in QueryBodies : add_databrowser_stats(<<"tests">>, b)
    \/ \E q \in QueryParams : query_databrowser(<<"tests">>, q, GoodToken)
    \/ StreamBody
    \/ Respond
    \/ Tick

QuerySpec == QueryInit /\ [][QueryNext]_vars

\* two updates in flight at once on the records two creates stored
ConcurrentBodies ==
    {O(<<KV("metadata.num_results", I(20)), KV("query.project", S("cmip5"))>>),
     O(<<KV("metadata.flavour", S("user")), KV("query.variable", S("tas"))>>),
     O(<<KV("metadata.num_results", I(30))>>),
     O(<<KV("metadata", StatsMetadata),
         KV("query", O(<<KV("project", S("cmip6"))>>))>>),
     O(<<KV("metadata.foo", S("bar"))>>)}

ConcurrentInit == Init

ConcurrentNext ==
    \/ \E b \in QueryBodies : add_databrowser_stats(<<"tests">>, b)
    \/ Respond
    \/ \E r \in Slots, id \in 0..MaxIds, b \in ConcurrentBodies,
          t \in {GoodToken, Raw("")} :
            PutReceive(r, <<"tests">>, id, b, t)
    \/ \E r \in Slots : PutStoreUpdate(r)
    \/ \E r \in Slots : PutReturn(r)

ConcurrentSpec == ConcurrentInit /\ [][ConcurrentNext]_vars

ValidatorInit ==
    /\ Idle
    /\ tz = 0
    /\ vdata \in ValidatorPayloads
    /\ vmethod \in Methods

ValidatorNext == ValidateStats

ValidatorSpec == ValidatorInit /\ [][ValidatorNext]_vars

-----------------------------------------------------------------------------
(* Properties of the service specification.                                 *)

SearchQueries(project_name) == Collection(project_name, "search_queries")
IdsIn(docs) == {docs[i].id : i \in DOMAIN docs}
DocIn(docs, id) == docs[CHOOSE i \in DOMAIN docs : docs[i].id = id]
StoredIds(c) == IdsIn(store[c])
StoredDoc(c, id) == DocIn(store[c], id)

\* every field the payload lists holds the listed value in the document
HoldsAlready(doc, data) ==
    \A i \in DOMAIN data.v :
        LET k == data.v[i].k
            val == data.v[i].v
        IN  CASE k = "metadata" -> doc.metadata = val
              [] k = "query" -> doc.query = val
              [] OTHER ->
                    \E f \in FieldNames :
                        \/ k = Dotted("metadata", f)
                              /\ GetOr(doc.metadata, f, Absent) = val
                        \/ k = Dotted("query", f)
                              /\ GetOr(doc.query, f, Absent) = val

\* an update the store answers with a modified count of zero
ZeroModified(project_name, stat_id, data) ==
    \/ stat_id \notin StoredIds(SearchQueries(project_name))
    \/ HoldsAlready(StoredDoc(SearchQueries(project_name), stat_id), data)

\* a payload the update schema of the specification admits: it passes the
\* validator and does not set `metadata` (or `query`) next to a path inside it
SchemaValidUpdate(payload) ==
    /\ validate_databrowser_stats(DropNone(payload), "put")
    /\ ~\E top \in {"metadata", "query"}, f \in FieldNames :
            Has(DropNone(payload), top) /\ Has(DropNone(payload), Dotted(top, f))

C1_Step ==
    LET r == resp'
    IN  (/\ resp = IdleResponse /\ r.op = "PUT"
         /\ r.access_token = GoodToken
         /\ SchemaValidUpdate(r.payload)
         /\ IsObjectId(r.stat_id))
        => IF \E p \in ProjectNames, id \in StatIds :
                 /\ p = r.project_name /\ id = r.stat_id
                 /\ ZeroModified(p, id, DropNone(r.payload))
           THEN r.status = 304 /\ store' = store
           ELSE r.status = 200 /\ store' # store

\* C1: an authenticated, schema-valid update of a well-formed identifier
\* that modifies no document (the identifier is not stored in the namespace,
\* or every listed field holds the supplied value already) is answered 304
\* and leaves the store as it is; it is answered 200 only when a document
\* was modified.
C1_ZeroModifiedIsNotModified == [][C1_Step]_vars

\* an update of a stored record whose fields held the values already
C1_Witness ==
    /\ resp.op = "PUT" /\ resp.status = 304 /\ resp.access_token = GoodToken
    /\ resp.stat_id \in StoredIds(SearchQueries(resp.project_name))

C2_Step ==
    LET r == resp'
    IN  (/\ resp = IdleResponse /\ r.op = "DELETE"
         /\ r.access_token = GoodToken
         /\ IsObjectId(r.stat_id))
        => \E c \in Collections :
           /\ c = SearchQueries(r.project_name)
           /\ IF r.stat_id \in StoredIds(c)
              THEN /\ r.status = 204
                   /\ IdsIn(store'[c]) = IdsIn(store[c]) \ {r.stat_id}
                   /\ Len(store'[c]) = Len(store[c]) - 1
                   /\ \A id \in IdsIn(store'[c]) :
                           DocIn(store'[c], id) = DocIn(store[c], id)
                   /\ \A o \in Collections \ {c} : store'[o] = store[o]
              ELSE r.status = 404 /\ store' = store

\* C2: an authenticated delete of a well-formed identifier that is not
\* stored in the namespace (never created there, or deleted before) is
\* answered 404 and changes nothing; a delete of a stored identifier is
\* answered 204 and removes that record and no other; no identifier is
\* assigned twice, so a deleted identifier stays deleted.
C2_DeleteOnceThenNotFound ==
    [][/\ C2_Step
       /\ \A c \in Collections :
            /\ \A id \in IdsIn(store[c]) : id < nextId
            /\ \A id \in IdsIn(store'[c]) \ IdsIn(store[c]) :
                    id = nextId /\ nextId' > nextId]_vars

\* the second delete of an identifier that was created and deleted
C2_Witness ==
    /\ resp.op = "DELETE" /\ resp.status = 404 /\ resp.access_token = GoodToken
    /\ IsObjectId(resp.stat_id) /\ resp.stat_id < nextId
    /\ resp.project_name = <<"tests">>
    /\ store[SearchQueries(resp.project_name)] # <<>>

\* C3: a read whose compiled filter matches no document of the namespace
\* is answered 404, and no find is issued for it: no stream is left to
\* consume.
C3_NoMatchIsNotFound ==
    (/\ resp.op = "GET" /\ resp.status # 401
     /\ \A i \in DOMAIN store[SearchQueries(resp.project_name)] :
            ~Matches(store[SearchQueries(resp.project_name)][i], MongoQuery(resp.params)))
    => /\ resp.status = 404
       /\ pending = NoStream
       /\ "find" \notin {resp.calls[i] : i \in DOMAIN resp.calls}

\* a filtered read of a namespace that holds documents, none of them matching
C3_Witness ==
    /\ resp.op = "GET" /\ resp.status = 404
    /\ resp.mongo_query # O(<<>>)
    /\ store[SearchQueries(resp.project_name)] # <<>>

\* the rows of a streamed body that carry the identifier
RowsOf(lines, id) == {i \in DOMAIN lines : lines[i].fields[1] = ToString(id)}

\* the row renders the submitted metadata values, field by field, the date
\* excepted
RendersSubmitted(line, metadata) ==
    /\ Len(line.fields) > Len(metadata.v)
    /\ \A i \in DOMAIN metadata.v :
            metadata.v[i].k # "date" => line.fields[i + 1] = Str(metadata.v[i].v)

UnfilteredStream(project_name) ==
    /\ resp.op = "STREAM" /\ resp.project_name = project_name
    /\ resp.mongo_query = O(<<>>)

\* C4 as stated: every accepted create, on every namespace, returns an
\* identifier, and every later unfiltered read shows one row with the
\* submitted metadata values.
C4_AsStated ==
    /\ (resp.op = "POST" /\ resp.status = 201) => resp.id # Null
    /\ \A h \in created :
            UnfilteredStream(h.project_name) =>
                /\ Cardinality(RowsOf(resp.lines, h.id)) = 1
                /\ \A i \in RowsOf(resp.lines, h.id) :
                        RendersSubmitted(resp.lines[i], h.metadata)

\* C4: on every namespace other than "example-project" an accepted create
\* returns the identifier of the new record, and while that record has been
\* neither deleted nor updated every unfiltered read of the namespace holds
\* exactly one row with that identifier, whose metadata fields render the
\* submitted values (the date excepted).
C4_CreateThenRead ==
    /\ (resp.op = "POST" /\ resp.status = 201
            /\ resp.project_name # ExampleProject) =>
            /\ resp.id # Null
            /\ \E h \in created :
                    /\ h.id = resp.id.v /\ h.project_name = resp.project_name
                    /\ h.metadata = Get(resp.payload, "metadata")
    /\ \A h \in created :
            (UnfilteredStream(h.project_name) /\ h.id \notin updated) =>
                /\ Cardinality(RowsOf(resp.lines, h.id)) = 1
                /\ \A i \in RowsOf(resp.lines, h.id) :
                        RendersSubmitted(resp.lines[i], h.metadata)

\* an unfiltered read of a namespace holding two created records, the
\* second of them untouched since
C4_Witness ==
    \E h \in created :
        /\ UnfilteredStream(h.project_name) /\ h.id \notin updated
        /\ Len(resp.lines) = 3
        /\ RowsOf(resp.lines, h.id) = {3}

-----------------------------------------------------------------------------
(* Properties of the token specification.                                   *)

\* C5 as stated: a negative expiry yields no expiry claim and a token that
\* verifies at every later time; a non-negative expiry yields an expiry of
\* issue time plus one day, whatever its magnitude, and a token that
\* verifies before that instant and fails after it.
C5_AsStated ==
    /\ tokResp.op = "issue" =>
            IF tokResp.expiry < 0
            THEN tokResp.exp = Null
            ELSE tokResp.exp = I(tokResp.at + Day)
    /\ \A i \in issued :
            /\ i.expiry < 0 => validate_token(i.token)
            /\ (i.expiry >= 0 /\ now < i.at + Day) => validate_token(i.token)
            /\ (i.expiry >= 0 /\ now > i.at + Day) => ~validate_token(i.token)

-----------------------------------------------------------------------------
(* Properties of the service specification: access control and rejection.   *)

\* C6 as stated: a GET, PUT or DELETE on a namespace other than
\* "example-project" whose token does not verify is answered 401 and
\* performs no store operation.
C6_AsStated ==
    (/\ resp.op \in {"GET", "PUT", "DELETE"}
     /\ resp.project_name # ExampleProject
     /\ ~validate_token(resp.access_token))
    => resp.status = 401 /\ resp.calls = <<>>

\* C7 as stated: an update whose payload holds a top-level `metadata`
\* object next to a dotted `metadata.<field>` key is answered 422.
C7_AsStated ==
    (/\ resp.op = "PUT" /\ resp.access_token = GoodToken
     /\ resp.project_name # ExampleProject
     /\ Has(resp.payload, "metadata")
     /\ Get(resp.payload, "metadata").t = "obj"
     /\ \E f \in FieldNames : Has(resp.payload, Dotted("metadata", f)))
    => resp.status = 422

\* C10 as stated: every stored record has an integer num_results >= 0, an
\* integer server_status >= 0 and a uniq_key of "file" or "uri".
C10_AsStated ==
    \A c \in Collections : \A i \in DOMAIN store[c] :
        LET m == store[c][i].metadata
        IN  /\ GetOr(m, "num_results", Absent).t = "int"
            /\ GetOr(m, "num_results", Absent).v >= 0
            /\ GetOr(m, "server_status", Absent).t = "int"
            /\ GetOr(m, "server_status", Absent).v >= 0
            /\ GetOr(m, "uniq_key", Absent) \in {S("file"), S("uri")}

-----------------------------------------------------------------------------
(* Properties of the validator specification.                               *)

DeclaredFields == {"num_results", "flavour", "uniq_key", "server_status", "date"}
DeclaredType(f) == IF f \in {"num_results", "server_status"} THEN "int" ELSE "str"

\* the metadata object has the four required fields, declared keys only,
\* each of its declared type
WellFormedMetadata(m) ==
    /\ m.t = "obj"
    /\ {"num_results", "flavour", "uniq_key", "server_status"} \subseteq Keys(m)
    /\ \A i \in DOMAIN m.v :
            /\ m.v[i].k \in DeclaredFields
            /\ m.v[i].v.t = DeclaredType(m.v[i].k)

WellFormedQuery(q) ==
    /\ q.t = "obj"
    /\ \A i \in DOMAIN q.v : q.v[i].k \in FacetSet /\ q.v[i].v.t = "str"

CreateConditions(data) ==
    /\ Keys(data) = {"metadata", "query"}
    /\ WellFormedMetadata(Get(data, "metadata"))
    /\ WellFormedQuery(Get(data, "query"))

\* C8: in create mode the validator accepts a payload exactly when it has
\* `metadata` and `query` and nothing else, `metadata` holds the four
\* required fields and only declared keys, each of its declared type, and
\* every `query` key is a facet with a string value; it rejects every
\* other payload with 422.
C8_CreateModeAcceptance ==
    (vmethod = "post" /\ vresult # "none")
    => (vresult = "ok" <=> CreateConditions(vdata))

\* a create payload with a date next to the required fields is accepted
C8_Witness ==
    /\ vmethod = "post" /\ vresult = "ok"
    /\ Has(Get(vdata, "metadata"), "date")

\* the pair is a dotted key naming a declared field or a facet
DeclaredDotted(p) ==
    \/ \E f \in DeclaredFields : p.k = Dotted("metadata", f)
    \/ \E f \in FacetSet : p.k = Dotted("query", f)

WellTypedDotted(p) ==
    \/ \E f \in DeclaredFields :
            p.k = Dotted("metadata", f) /\ p.v.t = DeclaredType(f)
    \/ \E f \in FacetSet : p.k = Dotted("query", f) /\ p.v.t = "str"

UpdateRejected(data) ==
    \/ \E i \in DOMAIN data.v :
            data.v[i].k \in {Dotted("metadata", "foo"), Dotted("query", "foo")}
    \/ \E i \in DOMAIN data.v :
            DeclaredDotted(data.v[i]) /\ ~WellTypedDotted(data.v[i])
    \/ /\ Has(data, "metadata") /\ Get(data, "metadata").t = "obj"
       /\ \/ ~({"num_results", "flavour", "uniq_key", "server_status"}
                    \subseteq Keys(Get(data, "metadata")))
          \/ ~(Keys(Get(data, "metadata")) \subseteq DeclaredFields)

\* C9: in update mode the validator accepts every payload made only of
\* dotted keys naming a declared metadata field or a facet, each with a
\* value of the declared type, none of them being required; it rejects
\* with 422 every payload with an unknown dotted key, an ill-typed dotted
\* value, or a top-level `metadata` object that lacks a required field or
\* holds an undeclared one.
C9_UpdateModeAcceptance ==
    (vmethod = "put" /\ vresult # "none")
    => /\ (\A i \in DOMAIN vdata.v : WellTypedDotted(vdata.v[i])) => vresult = "ok"
       /\ UpdateRejected(vdata) => vresult = "422"

\* an update of two dotted fields, no other field given, is accepted
C9_Witness ==
    /\ vmethod = "put" /\ vresult = "ok"
    /\ Keys(vdata) = {Dotted("metadata", "num_results"), Dotted("query", "project")}

-----------------------------------------------------------------------------
(* Properties of the service specification: the life of a record.           *)

\* C11 as stated: every stored record's `metadata.date` is the time of its
\* creation, whatever updates the record has seen since.
C11_AsStated ==
    \A h \in created :
        GetOr(StoredDoc(SearchQueries(h.project_name), h.id).metadata,
              "date", Absent) = D(h.at)

\* the sub-fields of `top` the payload names: in a full object or by a
\* dotted key
NamedFields(data, top) ==
    {f \in FieldNames :
        \/ Has(data, Dotted(top, f))
        \/ Has(data, top) /\ Get(data, top).t = "obj" /\ Has(Get(data, top), f)}

\* the value the payload gives the sub-field
NamedValue(data, top, f) ==
    IF Has(data, Dotted(top, f)) THEN Get(data, Dotted(top, f))
    ELSE Get(Get(data, top), f)

\* the record after the update is the record before it with the named
\* sub-fields overwritten and every other sub-field kept
MergedInto(before, after, data) ==
    /\ after.id = before.id
    /\ \A f \in NamedFields(data, "metadata") :
            GetOr(after.metadata, f, Absent) = NamedValue(data, "metadata", f)
    /\ \A f \in NamedFields(data, "query") :
            GetOr(after.query, f, Absent) = NamedValue(data, "query", f)
    /\ \A f \in Keys(before.metadata) \ NamedFields(data, "metadata") :
            GetOr(after.metadata, f, Absent) = Get(before.metadata, f)
    /\ \A f \in Keys(before.query) \ NamedFields(data, "query") :
            GetOr(after.query, f, Absent) = Get(before.query, f)

C12_Step ==
    (/\ resp = IdleResponse /\ resp'.op = "PUT" /\ resp'.status = 200
     /\ resp'.calls # <<>>)
    => \E c \in Collections, id \in StatIds, b \in UpdateBodies :
        /\ c = SearchQueries(resp'.project_name)
        /\ id = resp'.stat_id
        /\ b = resp'.payload
        /\ id \in IdsIn(store[c])
        /\ IdsIn(store'[c]) = IdsIn(store[c])
        /\ MergedInto(DocIn(store[c], id), DocIn(store'[c], id), DropNone(b))
        /\ \A o \in IdsIn(store[c]) \ {id} :
                DocIn(store'[c], o) = DocIn(store[c], o)
        /\ \A o \in Collections \ {c} : store'[o] = store[o]

\* C12 as stated: a successful update overwrites the sub-fields its payload
\* names, keeps every other sub-field of the record as it was, and changes
\* no other record of any namespace.
C12_AsStated == [][C12_Step]_vars

-----------------------------------------------------------------------------
(* Properties of the token specification: issuance and verification.        *)

\* C13: the issuance endpoint answers 201 with a token, its expiry and the
\* token type "bearer" exactly when the presented username and password
\* equal the two configured secrets; every other pair is answered 401 with
\* no token, and every token ever issued names the administrative user.
C13_TokenOnlyForCredentials ==
    /\ tokResp.op \in {"issue", "denied"} =>
            IF tokResp.username = ApiUsername /\ tokResp.password = ApiPassword
            THEN /\ tokResp.status = 201
                 /\ tokResp.token \in {i.token : i \in issued}
                 /\ tokResp.token_type = "bearer"
            ELSE /\ tokResp.status = 401
                 /\ tokResp.token = Raw("") /\ tokResp.exp = Null
    /\ \A i \in issued :
            /\ i.token.kind = "jwt" /\ i.token.key = define_secret_key
            /\ GetOr(i.token.payload, "sub", Absent) = S(ApiUsername)

\* the right password presented under a wrong username is turned away
C13_Witness ==
    /\ tokResp.op = "denied" /\ tokResp.status = 401
    /\ tokResp.password = ApiPassword /\ tokResp.username # ApiUsername
    /\ issued # {}

\* C14 as stated: verification fails with 401 when the signature is
\* invalid, the payload is malformed, the subject claim is absent or the
\* token has expired.
C14_AsStated ==
    (/\ tokResp.op = "verify"
     /\ \/ tokResp.token.kind # "jwt"
        \/ tokResp.token.key # define_secret_key
        \/ ~Has(tokResp.token.payload, "sub")
        \/ /\ Has(tokResp.token.payload, "exp")
           /\ Get(tokResp.token.payload, "exp").v < tokResp.at)
    => tokResp.status = 401

-----------------------------------------------------------------------------
(* Properties of the service specification: errors.                         *)

C15_Step ==
    (/\ resp = IdleResponse /\ resp'.op \in {"PUT", "DELETE"}
     /\ resp'.access_token = GoodToken
     /\ resp'.op = "PUT" => SchemaValidUpdate(resp'.payload))
    => \E c \in Collections, id \in StatIds :
        /\ c = SearchQueries(resp'.project_name)
        /\ id = resp'.stat_id
        /\ id < 1 =>
                resp'.status = 500 /\ resp'.calls = <<>> /\ store' = store
        /\ (id >= 1 /\ id \notin IdsIn(store[c])) =>
                /\ resp'.status = IF resp'.op = "DELETE" THEN 404 ELSE 304
                /\ store' = store

\* C15: an authenticated delete, or update with a schema-valid body, whose
\* identifier is no well-formed store identifier is answered 500 and issues
\* no store operation; a well-formed identifier that matches no record of
\* the namespace is answered 404 by delete and 304 by update; the store is
\* unchanged in both cases.
C15_MalformedIdentifier == [][C15_Step]_vars

\* an update with a valid body and the identifier "0", records being stored
C15_Witness ==
    /\ resp.op = "PUT" /\ resp.status = 500 /\ resp.stat_id = 0
    /\ resp.access_token = GoodToken /\ SchemaValidUpdate(resp.payload)
    /\ store[SearchQueries(resp.project_name)] # <<>>

\* C16: a create, update or delete that is answered 401 or 422 has issued
\* no store operation and leaves every collection of every namespace as it
\* was before the request.
C16_FailFast ==
    [][(/\ resp = IdleResponse
        /\ resp'.op \in {"POST", "PUT", "DELETE"}
        /\ resp'.status \in {401, 422})
       => (store' = store /\ resp'.calls = <<>> /\ nextId' = nextId)]_vars

\* an update with a valid body and a token that does not verify, addressed
\* to a stored record it would have changed
C16_Witness ==
    /\ resp.op = "PUT" /\ resp.status = 401
    /\ SchemaValidUpdate(resp.payload)
    /\ resp.stat_id \in StoredIds(SearchQueries(resp.project_name))
    /\ ~HoldsAlready(StoredDoc(SearchQueries(resp.project_name), resp.stat_id),
                     DropNone(resp.payload))

-----------------------------------------------------------------------------
(* Properties of the isolation specification.                               *)

\* the records created under the namespace and not deleted since
CreatedIn(history, project_name) ==
    {h \in history : h.project_name = project_name}
CreatedUnder(project_name) == CreatedIn(created, project_name)

C17_Step ==
    /\ (resp = IdleResponse /\ resp'.op \in {"POST", "PUT", "DELETE"}) =>
            \A h \in created :
                h.project_name # resp'.project_name =>
                    /\ h \in created'
                    /\ h.id \in IdsIn(store'[SearchQueries(h.project_name)])
                    /\ DocIn(store'[SearchQueries(h.project_name)], h.id)
                            = DocIn(store[SearchQueries(h.project_name)], h.id)
    /\ (resp = IdleResponse /\ resp'.op = "POST" /\ resp'.status = 201) =>
            Cardinality(CreatedIn(created', resp'.project_name))
                = Cardinality(CreatedIn(created, resp'.project_name)) + 1
    /\ (resp'.op = "GET" /\ resp'.status \in {200, 404}) =>
            (resp'.status = 200 <=> CreatedIn(created, resp'.project_name) # {})
    /\ resp'.op = "STREAM" =>
            /\ Len(resp'.lines) =
                    IF CreatedIn(created, resp'.project_name) = {} THEN 0
                    ELSE Cardinality(CreatedIn(created, resp'.project_name)) + 1
            /\ \A h \in created :
                    h.project_name # resp'.project_name =>
                        RowsOf(resp'.lines, h.id) = {}

\* C17: a create, update or delete addressed to one namespace adds, changes
\* and removes no record created under another, and an unfiltered read of a
\* namespace counts and returns the records created under it and no
\* others, for namespaces whose names contain a dot and share a prefix.
C17_NamespacesIsolated == [][C17_Step]_vars

\* a delete addressed to one namespace with the identifier of a record of
\* the other is answered 404, both namespaces holding records
C17_Witness ==
    /\ resp.op = "DELETE" /\ resp.status = 404
    /\ \E h \in created : h.id = resp.stat_id /\ h.project_name # resp.project_name
    /\ \A p \in DottedProjectNames : CreatedUnder(p) # {}

-----------------------------------------------------------------------------
(* Properties of the service specification: the facet vocabulary.           *)

\* C18: in every reachable state the keys of every stored record's `query`
\* are facets of the vocabulary: creates and updates, with a full `query`
\* object or with dotted `query.<facet>` keys, are checked against it.
C18_QueryKeysAreFacets ==
    \A c \in Collections : \A i \in DOMAIN store[c] :
        \A k \in Keys(store[c][i].query) : \E j \in DOMAIN FacetKeys : k = FacetKeys[j]

\* an update naming a key outside the vocabulary, addressed to a stored
\* record with a valid token, has been turned away
C18_Witness ==
    /\ resp.op = "PUT" /\ resp.status = 422 /\ resp.access_token = GoodToken
    /\ \/ Has(resp.payload, Dotted("query", "foo"))
       \/ Has(resp.payload, "query") /\ Has(Get(resp.payload, "query"), "foo")
    /\ resp.stat_id \in StoredIds(SearchQueries(resp.project_name))
    /\ resp.stat_id \in updated

-----------------------------------------------------------------------------
(* Properties of the read specification.                                    *)

\* the read got as far as compiling its filter
Compiled == resp.op = "GET" /\ resp.status \in {200, 404}

Readable(timestamp) == timestamp # Null /\ timestamp.v # "foo"

\* C20 as stated: a read never fails over `before` or `after`: a string the
\* parser cannot read leaves the filter as it is without that parameter, a
\* readable `before` gives a $lte bound and a readable `after` a $gte bound
\* on `metadata.date`.
C20_AsStated ==
    (resp.op = "GET" /\ resp.status # 401) =>
        /\ Compiled
        /\ Readable(resp.params.before) =>
                Has(GetOr(resp.mongo_query, "metadata.date", O(<<>>)), "$lte")
        /\ Readable(resp.params.after) =>
                Has(GetOr(resp.mongo_query, "metadata.date", O(<<>>)), "$gte")
        /\ ~Readable(resp.params.before) =>
                resp.mongo_query = MongoQuery([resp.params EXCEPT !.before = Null])
        /\ ~Readable(resp.params.after) =>
                resp.mongo_query = MongoQuery([resp.params EXCEPT !.after = Null])

-----------------------------------------------------------------------------
(* The line sequence of one exporter call.                                  *)

\* the documents the exporter's find fetches for the stream just produced
Fetched == find(store[SearchQueries(resp.project_name)], resp.mongo_query)

\* the lines of the stream that are header lines
HeaderLines(lines) == {i \in DOMAIN lines : lines[i].fields[1] = "id"}

\* C21: one exporter call over n fetched documents emits nothing when n = 0;
\* otherwise n + 1 lines: one header line, emitted first, then one data row
\* per document in fetch order, and no second header line.
C21_LineSequence ==
    resp.op = "STREAM" =>
        LET n == Len(Fetched)
        IN  IF n = 0 THEN resp.lines = <<>>
            ELSE /\ Len(resp.lines) = n + 1
                 /\ HeaderLines(resp.lines) = {1}
                 /\ \A i \in 1..n :
                        resp.lines[i + 1].fields[1] = ToString(Fetched[i].id)

\* a stream over two fetched documents: a header and two rows
C21_Witness ==
    /\ resp.op = "STREAM"
    /\ Len(Fetched) = 2
    /\ Len(resp.lines) = 3

\* a stream whose find fetches no document, emitting no line
C21_WitnessEmpty ==
    /\ resp.op = "STREAM"
    /\ Len(Fetched) = 0
    /\ resp.lines = <<>>

-----------------------------------------------------------------------------
(* The fields of a data row.                                                *)

\* the identifier, the metadata values in the document's key order, then
\* one field per facet of the vocabulary
RowFields(document) ==
    <<ToString(document.id)>>
    \o [i \in DOMAIN document.metadata.v |-> Str(document.metadata.v[i].v)]
    \o [j \in DOMAIN FacetKeys |->
            IF Has(document.query, FacetKeys[j])
            THEN Get(document.query, FacetKeys[j]).v
            ELSE ""]

\* C22: the data row of a document holds the document's identifier, then its
\* metadata values in the document's metadata key order, then for every facet
\* of the vocabulary, in vocabulary order, the value the document's query
\* stores under that facet, or the empty string when it stores none.
C22_RowContents ==
    resp.op = "STREAM" =>
        \A i \in DOMAIN Fetched :
            /\ i + 1 \in DOMAIN resp.lines
            /\ resp.lines[i + 1].fields = RowFields(Fetched[i])
            /\ resp.lines[i + 1].text = Join(RowFields(Fetched[i]), ",") \o "\n"

\* a streamed document whose query stores one facet of the vocabulary and
\* lacks another, and whose metadata carries the date the create added
C22_Witness ==
    /\ resp.op = "STREAM"
    /\ \E i \in DOMAIN Fetched :
            /\ Has(Fetched[i].query, "project")
            /\ ~Has(Fetched[i].query, "variable")
            /\ Has(Fetched[i].metadata, "date")
            /\ Len(resp.lines) > i

-----------------------------------------------------------------------------
(* Updates whose body fails validation.                                     *)

\* the body of the update just answered fails update-mode validation
InvalidUpdateBody ==
    /\ resp.op = "PUT"
    /\ ~validate_databrowser_stats(DropNone(resp.payload), "put")

\* C23 as stated: an update whose body fails schema validation is answered
\* 422 for every namespace and every token, the documentation namespace
\* with the demo token included: the demo shortcut answers 200 only for
\* bodies that pass update-mode validation.
C23_AsStated ==
    /\ InvalidUpdateBody => resp.status = 422
    /\ (/\ resp.op = "PUT" /\ resp.status = 200
        /\ resp.project_name = ExampleProject
        /\ resp.access_token = Raw("my-token"))
            => validate_databrowser_stats(DropNone(resp.payload), "put")

-----------------------------------------------------------------------------
(* The order of the request checks.                                         *)

\* the request just answered took the documentation shortcut, which
\* precedes every check
TookShortcut ==
    resp.project_name = ExampleProject /\ resp.access_token = Raw("my-token")

-----------------------------------------------------------------------------
(* Concurrent updates of one record.                                        *)

\* both updates have been applied and answered 200, on the same record
BothSucceeded(x, y) ==
    /\ x # y
    /\ inflight[x].pc \in {"done", "returned"} /\ inflight[x].status = 200
    /\ inflight[y].pc \in {"done", "returned"} /\ inflight[y].status = 200
    /\ inflight[x].project_name # ExampleProject
    /\ inflight[x].project_name = inflight[y].project_name
    /\ inflight[x].stat_id = inflight[y].stat_id

\* the payloads name dotted fields only, and no field in common
DisjointDotted(d1, d2) ==
    /\ \A k \in Keys(d1) \cup Keys(d2) : k \notin {"metadata", "query"}
    /\ Keys(d1) \cap Keys(d2) = {}

\* the value the document holds under a dotted key
ValueAt(doc, key) ==
    IF \E f \in FieldNames : key = Dotted("metadata", f)
    THEN GetOr(doc.metadata,
               CHOOSE f \in FieldNames : key = Dotted("metadata", f), Absent)
    ELSE GetOr(doc.query,
               CHOOSE f \in FieldNames : key = Dotted("query", f), Absent)

\* C26: two updates of one identifier that were in flight together and
\* both succeeded leave the record as applying one and then the other to
\* the record the first found would; when their payloads name disjoint
\* dotted fields, the record holds every value of both payloads.
C26_NoLostUpdate ==
    \A x \in Slots, y \in Slots :
        BothSucceeded(x, y) =>
            LET doc == StoredDoc(SearchQueries(inflight[x].project_name),
                                 inflight[x].stat_id)
                dx == DropNone(inflight[x].payload)
                dy == DropNone(inflight[y].payload)
            IN  /\ \/ /\ inflight[y].before = inflight[x].after
                      /\ doc = ApplySet(ApplySet(inflight[x].before, dx.v), dy.v)
                   \/ /\ inflight[x].before = inflight[y].after
                      /\ doc = ApplySet(ApplySet(inflight[y].before, dy.v), dx.v)
                /\ DisjointDotted(dx, dy) =>
                        /\ \A k \in Keys(dx) : ValueAt(doc, k) = Get(dx, k)
                        /\ \A k \in Keys(dy) : ValueAt(doc, k) = Get(dy, k)

\* two updates with disjoint dotted payloads, neither of them returned yet,
\* have both succeeded on the same record, the second applied to what the
\* first left
C26_Witness ==
    /\ BothSucceeded("a", "b")
    /\ DisjointDotted(DropNone(inflight["a"].payload),
                      DropNone(inflight["b"].payload))
    /\ inflight["a"].pc = "done" /\ inflight["b"].pc = "done"
    /\ inflight["b"].before = inflight["a"].after

-----------------------------------------------------------------------------
(* The body of a read answered 200.                                         *)

\* C27 as stated: the body streamed for a read that was answered 200 has a
\* header line and at least one data row, whatever other requests deleted
\* between the read's count and its find.
C27_AsStated ==
    (resp.op = "STREAM" /\ resp.status = 200) =>
        /\ Len(resp.lines) >= 2
        /\ HeaderLines(resp.lines) = {1}

-----------------------------------------------------------------------------
(* Rows against the header.                                                 *)

\* the text a document contributes to the column of the given name
ColumnValue(document, column) ==
    IF column = "id" THEN ToString(document.id)
    ELSE IF Has(document.metadata, column)
    THEN Str(Get(document.metadata, column))
    ELSE IF Has(document.query, column) THEN Get(document.query, column).v
    ELSE ""

\* C28 as stated: in every stream each data row has as many fields as the
\* header line, and its i-th field is the document's value for the i-th
\* header column, whatever creates and updates produced the documents.
C28_AsStated ==
    (resp.op = "STREAM" /\ resp.lines # <<>>) =>
        LET header == resp.lines[1].fields
        IN  \A i \in DOMAIN Fetched :
                LET row == resp.lines[i + 1].fields
                IN  /\ Len(row) = Len(header)
                    /\ \A j \in DOMAIN row :
                            j \in DOMAIN header =>
                                row[j] = ColumnValue(Fetched[i], header[j])

-----------------------------------------------------------------------------
(* The required metadata fields of stored records.                          *)

\* the metadata holds the four required fields with their declared types
HoldsRequired(metadata) ==
    /\ \A f \in {"num_results", "server_status"} :
            Has(metadata, f) /\ Get(metadata, f).t = "int"
    /\ \A f \in {"flavour", "uniq_key"} :
            Has(metadata, f) /\ Get(metadata, f).t = "str"

\* C29: whatever creates, updates and deletes were served, every record
\* stored in a namespace other than the documentation namespace holds
\* num_results (integer), flavour (string), uniq_key (string) and
\* server_status (integer) in its metadata.
C29_RequiredFieldsKept ==
    \A c \in Collections :
        c # SearchQueries(ExampleProject) =>
            \A i \in DOMAIN store[c] : HoldsRequired(store[c][i].metadata)

\* a stored record after an accepted update that replaced its whole metadata
C29_Witness ==
    /\ resp.op = "PUT" /\ resp.status = 200
    /\ Has(DropNone(resp.payload), "metadata")
    /\ resp.project_name # ExampleProject
    /\ resp.stat_id \in StoredIds(SearchQueries(resp.project_name))
    /\ StoredDoc(SearchQueries(resp.project_name), resp.stat_id).metadata
            = Get(resp.payload, "metadata")

-----------------------------------------------------------------------------
(* The documentation shortcut.                                              *)

\* what a mutation answered by the shortcut, or refused for the demo token,
\* leaves behind: no store call, every collection as it was
NoStoreEffect ==
    /\ store' = store /\ nextId' = nextId
    /\ resp'.calls = <<>>

\* the demo token on an update or delete: the shortcut in the documentation
\* namespace, an ordinary token that does not verify elsewhere
C30_Rest ==
    /\ (resp'.op \in {"PUT", "DELETE"}
            /\ resp'.access_token = Raw("my-token")) =>
        IF resp'.project_name = ExampleProject
        THEN /\ resp'.status = (IF resp'.op = "PUT" THEN 200 ELSE 204)
             /\ NoStoreEffect
        ELSE /\ resp'.status = 401
             /\ NoStoreEffect

\* every create addressed to the documentation namespace is answered 201
C30_StepAsStated ==
    resp = IdleResponse =>
        /\ (resp'.op = "POST" /\ resp'.project_name = ExampleProject) =>
                (resp'.status = 201 /\ NoStoreEffect)
        /\ C30_Rest

\* a create addressed to the documentation namespace is answered 201 when
\* its body parses as the request model, 422 otherwise
C30_Step ==
    resp = IdleResponse =>
        /\ (resp'.op = "POST" /\ resp'.project_name = ExampleProject) =>
                /\ NoStoreEffect
                /\ resp'.status = (IF ModelAccepts(resp'.payload) THEN 201 ELSE 422)
                /\ resp'.id = Null
        /\ C30_Rest

====
